---- MODULE Spec2Model ----
(***************************************************************************)
(* Model of content_agent_system.py: the persistent memory store (one JSON *)
(* file), the offline tools, the six-step workflow, the skip guardrail and *)
(* the run loop of run_system.                                             *)
(*                                                                         *)
(* Python strings are TLA+ strings (sequences of characters), lists are    *)
(* sequences and dicts are functions with a set of string keys.  The       *)
(* "timestamp" field of log entries and assets (now_iso, the wall clock)   *)
(* is not represented; console output is not represented.                  *)
(***************************************************************************)
EXTENDS Integers, Sequences, FiniteSets, TLC

\* Record constructors list their fields in the order in which the field
\* names first occur in this module.

\* ------------------------------------------------------------------ bounds
MaxRuns == 3
MaxInterrupts == 1

\* ------------------------------------------------------------------ inputs
\* Goals given to run_system: the empty string, a blank string, two strings
\* that differ in case and surrounding whitespace, and an unrelated goal.
Goals == {"", " ", "a", " A", "b"}
Audiences == {"busy entrepreneurs who want to level up"}
Niches == {"AI"}
Tones == {"direct, practical, supportive"}
Ctas == {"Comment 'PLAN' and I will share the next steps."}
\* A caller that passes no niche: Python's None, on which .lower() raises.
None == "<None>"

\* ----------------------------------------------------------------- strings
Upper == "ABCDEFGHIJKLMNOPQRSTUVWXYZ"
LowerLetters == "abcdefghijklmnopqrstuvwxyz"
Whitespace == {" ", "\t", "\n", "\r", "\f"}

CharAt(s, k) == SubSeq(s, k, k)

\* each upper-case letter with its lower-case letter
LowerOf == [c \in {CharAt(Upper, k) : k \in 1..Len(Upper)} |->
              CharAt(LowerLetters, CHOOSE k \in 1..Len(Upper) : CharAt(Upper, k) = c)]

\* str.lower() on one character
LowerChar(c) == IF c \in DOMAIN LowerOf THEN LowerOf[c] ELSE c

RECURSIVE lower(_)
lower(s) == IF Len(s) = 0 THEN "" ELSE LowerChar(CharAt(s, 1)) \o lower(SubSeq(s, 2, Len(s)))

RECURSIVE lstrip(_)
lstrip(s) ==
  IF Len(s) > 0 /\ CharAt(s, 1) \in Whitespace THEN lstrip(SubSeq(s, 2, Len(s))) ELSE s

RECURSIVE rstrip(_)
rstrip(s) ==
  IF Len(s) > 0 /\ CharAt(s, Len(s)) \in Whitespace THEN rstrip(SubSeq(s, 1, Len(s) - 1)) ELSE s

strip(s) == rstrip(lstrip(s))

\* the Python expression  sub in s  on strings
Contains(s, sub) ==
  \E k \in 1..(Len(s) - Len(sub) + 1) : SubSeq(s, k, k + Len(sub) - 1) = sub

\* the Python expression  x in list
InList(x, list) == \E k \in 1..Len(list) : list[k] = x

\* list[:n]
Take(list, n) == SubSeq(list, 1, IF Len(list) < n THEN Len(list) ELSE n)

IsPrefix(s, t) == Len(s) <= Len(t) /\ SubSeq(t, 1, Len(s)) = s

\* ------------------------------------------------------------------- dicts
EmptyDict == [k \in {} |-> ""]
Put(d, k, v) == [x \in (DOMAIN d) \cup {k} |-> IF x = k THEN v ELSE d[x]]
setdefault(d, k, v) == IF k \in DOMAIN d THEN d ELSE Put(d, k, v)

\* repr() of a string without quotes, backslashes or control characters
ReprStr(s) == "'" \o s \o "'"

RECURSIVE JoinRepr(_)
JoinRepr(list) ==
  IF Len(list) = 0 THEN ""
  ELSE IF Len(list) = 1 THEN ReprStr(list[1])
  ELSE ReprStr(list[1]) \o ", " \o JoinRepr(Tail(list))

\* str() of a list of strings
StrList(list) == "[" \o JoinRepr(list) \o "]"

ReprItem(item) == "{'day': " \o ReprStr(item.day) \o ", 'topic': " \o ReprStr(item.topic) \o "}"

RECURSIVE JoinItems(_)
JoinItems(list) ==
  IF Len(list) = 0 THEN ""
  ELSE IF Len(list) = 1 THEN ReprItem(list[1])
  ELSE ReprItem(list[1]) \o ", " \o JoinItems(Tail(list))

\* str() of the schedule, a list of {"day", "topic"} dicts
StrSchedule(list) == "[" \o JoinItems(list) \o "]"

\* --------------------------------------------------------------- utilities
PreviewLimit == 260
TruncationMarker == "...(truncated)"

\* the text cut without the marker
truncate_NoMarker(text) ==
  IF Len(text) <= PreviewLimit THEN text ELSE SubSeq(text, 1, PreviewLimit)

truncate(text) ==
  IF Len(text) <= PreviewLimit THEN text ELSE SubSeq(text, 1, PreviewLimit) \o TruncationMarker

\* ------------------------------------------------------------------- tools
tool_generate_topics(goal, audience, tone) ==
  << goal \o ": 3 mistakes to avoid",
     goal \o ": the step-by-step beginner roadmap",
     goal \o ": what I wish I knew earlier",
     goal \o ": tools and resources I actually use",
     goal \o ": quick wins you can do this week" >>

tool_draft_post(topic, audience, tone, cta) ==
  "Hook: " \o topic \o "\n\n"
  \o "For " \o audience \o ":\n"
  \o "- Key point 1: Keep it simple and consistent.\n"
  \o "- Key point 2: Focus on one clear takeaway.\n"
  \o "- Key point 3: Take one action today.\n\n"
  \o "Tone: " \o tone \o "\n"
  \o "CTA: " \o cta \o "\n"

HashtagBase == <<"#contentstrategy", "#creator", "#marketing", "#smallbusiness", "#consistency">>
HashtagAi == <<"#ai", "#aiautomation", "#aigent", "#promptengineering", "#futureofwork">>
HashtagRealEstate == <<"#realestate", "#realtor", "#houstonrealestate", "#investing", "#homebuyers">>
HashtagCap == 12

tool_hashtags(niche) ==
  Take(HashtagBase
         \o (IF Contains(lower(niche), "ai") THEN HashtagAi ELSE <<>>)
         \o (IF Contains(lower(niche), "real estate") THEN HashtagRealEstate ELSE <<>>),
       HashtagCap)

Days == <<"Mon", "Tue", "Wed", "Thu", "Fri">>

\* the bound of the index test off by one
tool_schedule_OffByOne(topics) ==
  [k \in 1..Len(Days) |->
     [day |-> Days[k],
      topic |-> IF k < Len(topics) THEN topics[k] ELSE "Bonus: behind the scenes"]]

tool_schedule(topics) ==
  [k \in 1..Len(Days) |->
     [day |-> Days[k],
      topic |-> IF k <= Len(topics) THEN topics[k] ELSE "Bonus: behind the scenes"]]

tool_clarify(question) == "I need one detail: " \o question

\* ---------------------------------------------------------------- workflow
workflow ==
  << [id |-> "topics", tool |-> "generate_topics"],
     [id |-> "post_1", tool |-> "draft_post"],
     [id |-> "post_2", tool |-> "draft_post"],
     [id |-> "post_3", tool |-> "draft_post"],
     [id |-> "hashtags", tool |-> "hashtags"],
     [id |-> "schedule", tool |-> "schedule"] >>

NSteps == Len(workflow)
StepIds == {workflow[k].id : k \in 1..NSteps}

\* --------------------------------------------------------------- guardrails
completed_key(task_id, run_key) == run_key \o ":" \o task_id

\* the step looked up under any run key
should_skip_AnyRun(task_id, mem, run_key) ==
  \E j \in 1..Len(mem["completed_tasks"]) :
    LET key == mem["completed_tasks"][j]
    IN /\ Len(key) > Len(task_id)
       /\ SubSeq(key, Len(key) - Len(task_id), Len(key)) = ":" \o task_id

should_skip(task_id, mem, run_key) == InList(completed_key(task_id, run_key), mem["completed_tasks"])

\* the run key without .lower()
RunKey_NoLower(content_goal) == "run:" \o strip(content_goal)

RunKey(content_goal) == "run:" \o strip(lower(content_goal))

\* ------------------------------------------------------------ memory store
\* The backing file MEMORY_FILE: whether it exists, whether its text parses
\* as JSON, and the object it holds when it does.
Absent == [exists |-> FALSE, wellformed |-> FALSE, data |-> EmptyDict]
Malformed == [exists |-> TRUE, wellformed |-> FALSE, data |-> EmptyDict]
InitFiles == {Absent, Malformed}

KnownFields == {"completed_tasks", "work_log", "content_library"}

\* json.dump(memory, f): the whole dict replaces the file's contents.  Every
\* value held in memory is a str, list or dict with str keys (or None), so
\* decoding the written text yields the same value.
json_dump(mem) == [exists |-> TRUE, wellformed |-> TRUE, data |-> mem]

\* json.load(f) of a well-formed file
json_load(f) == f.data

\* only the three known fields kept
load_memory_KnownOnly(f) ==
  [k \in KnownFields |-> IF f.exists /\ k \in DOMAIN json_load(f) THEN json_load(f)[k] ELSE <<>>]

\* load_memory() when it returns
load_memory(f) ==
  LET m0 == IF f.exists THEN json_load(f) ELSE EmptyDict
      m1 == setdefault(m0, "completed_tasks", <<>>)
      m2 == setdefault(m1, "work_log", <<>>)
  IN setdefault(m2, "content_library", <<>>)

\* the decode error swallowed
load_raises_Swallowed(f) == FALSE

\* load_memory() raises (json.JSONDecodeError out of json.load)
load_raises(f) == f.exists /\ ~f.wellformed

Append_(mem, field, x) == [mem EXCEPT ![field] = Append(@, x)]

\* a field of the stored record, read as load_memory would default it
Stored(f, field) ==
  IF f.exists /\ f.wellformed /\ field \in DOMAIN f.data THEN f.data[field] ELSE <<>>

\* ------------------------------------------------------------------- state
VARIABLES
  file,          \* the backing file
  agent_status,  \* agent["status"]
  pc,            \* where run_system is: idle, load, guard, step, asset, log, mark, returned, raised
  inp,           \* the arguments of the current run_system call
  memory,        \* the local dict memory
  run_key,       \* the local run_key
  outputs,       \* the local dict outputs (short-term memory)
  i,             \* index in workflow of the current step (1-based)
  args,          \* the local args of the current step
  result,        \* the local result of the current step
  exc,           \* the exception that ended the last call, "" when none
  runs,          \* number of run_system calls so far
  interrupts,    \* number of times the process was killed during a run
  start,         \* history: lengths of the lists of memory as load_memory returned it
  calls,         \* history: tools invoked in this run, in order
  clarified      \* history: completion keys of steps that took the clarify path

locals == <<inp, memory, run_key, outputs, i, args, result>>
vars == <<file, agent_status, pc, inp, memory, run_key, outputs, i, args, result, exc,
          runs, interrupts, start, calls, clarified>>

NoInput == [goal |-> "", audience |-> "", tone |-> "", cta |-> "", niche |-> ""]

\* run_system is in its loop
InRun == pc \in {"step", "asset", "log", "mark"}
Loaded == pc \in {"guard", "step", "asset", "log", "mark", "returned"}

\* len() of each of the three lists of a memory record
Lengths(mem) == [f \in KnownFields |-> Len(mem[f])]
NoLengths == [f \in KnownFields |-> 0]

Init ==
  /\ file \in InitFiles
  /\ agent_status = "idle"
  /\ pc = "idle"
  /\ inp = NoInput
  /\ memory = EmptyDict
  /\ run_key = ""
  /\ outputs = EmptyDict
  /\ i = 0
  /\ args = EmptyDict
  /\ result = ""
  /\ exc = ""
  /\ runs = 0
  /\ interrupts = 0
  /\ start = NoLengths
  /\ calls = <<>>
  /\ clarified = {}

\* ----------------------------------------------------------------- logging
\* the event inserted at the front
log_event_Prepend(mem, event) == [mem EXCEPT !["work_log"] = <<event>> \o @]

\* log_event(memory, event): append to work_log, then save_memory
log_event(mem, event) == Append_(mem, "work_log", event)

\* the list of keys assigned instead of appended to
mark_done_Overwrite(task_id, mem, rk) ==
  [mem EXCEPT !["completed_tasks"] = <<completed_key(task_id, rk)>>]

\* mark_done(task_id, memory, run_key): append the completion key, then save_memory
mark_done(task_id, mem, rk) == Append_(mem, "completed_tasks", completed_key(task_id, rk))

SkippedEntry(step) ==
  [tool |-> step.tool, task |-> step.id, status |-> "skipped",
   reason |-> "Already completed for this goal"]

\* the status of the skip branch
ClarifyEntry_Skipped(task_id, res) ==
  [tool |-> "clarify", task |-> task_id, status |-> "skipped", output |-> truncate(res)]

ClarifyEntry(task_id, res) ==
  [tool |-> "clarify", task |-> task_id, status |-> "clarify", output |-> truncate(res)]

\* str(result), by the type of value each tool returns
StrResult(tool_name, res) ==
  CASE tool_name \in {"generate_topics", "hashtags"} -> StrList(res)
    [] tool_name = "schedule" -> StrSchedule(res)
    [] OTHER -> res

CompletedEntry(step, a, res) ==
  [tool |-> step.tool, args |-> a, task |-> step.id, status |-> "completed",
   output |-> truncate(StrResult(step.tool, res))]

Asset(goal, step, res) ==
  [goal |-> goal, tool |-> step.tool, data |-> res, asset_type |-> step.id]

\* ------------------------------------------------------- argument building
\* the draft and schedule steps need outputs["topics"]
NeedsTopics(tool_name) == tool_name \in {"draft_post", "schedule"}

ClarifyQuestion(tool_name) ==
  IF tool_name = "draft_post" THEN "I need topics first. Run generate_topics."
  ELSE "I need topics first to build a schedule."

\* {"post_1": 0, "post_2": 1, "post_3": 2}.get(task_id, 0), as a 1-based index
topic_index(task_id) ==
  CASE task_id = "post_1" -> 1 [] task_id = "post_2" -> 2 [] task_id = "post_3" -> 3 [] OTHER -> 1

BuildArgs(step, in, outs) ==
  CASE step.tool = "generate_topics" ->
         [goal |-> in.goal, audience |-> in.audience, tone |-> in.tone]
    [] step.tool = "draft_post" ->
         [topic |-> outs["topics"][topic_index(step.id)], audience |-> in.audience,
          tone |-> in.tone, cta |-> in.cta]
    [] step.tool = "hashtags" -> [niche |-> in.niche]
    [] step.tool = "schedule" -> [topics |-> outs["topics"]]
    [] OTHER -> EmptyDict

\* tools[tool_name](**args)
CallTool(tool_name, a) ==
  CASE tool_name = "generate_topics" -> tool_generate_topics(a.goal, a.audience, a.tone)
    [] tool_name = "draft_post" -> tool_draft_post(a.topic, a.audience, a.tone, a.cta)
    [] tool_name = "hashtags" -> tool_hashtags(a.niche)
    [] tool_name = "schedule" -> tool_schedule(a.topics)

\* the call raises: tool_hashtags calls niche.lower(), which None does not have
ToolRaises(tool_name, a) == tool_name = "hashtags" /\ a.niche = None

\* ----------------------------------------------------------------- actions
Ended == pc \in {"idle", "returned", "raised"}

\* a call run_system(content_goal, audience, niche, tone, cta): line 131
Invoke(in) ==
  /\ Ended
  /\ runs < MaxRuns
  /\ runs' = runs + 1
  /\ agent_status' = "working"
  /\ inp' = in
  /\ memory' = EmptyDict
  /\ run_key' = ""
  /\ outputs' = EmptyDict
  /\ i' = 0
  /\ args' = EmptyDict
  /\ result' = ""
  /\ exc' = ""
  /\ start' = NoLengths
  /\ calls' = <<>>
  /\ pc' = "load"
  /\ UNCHANGED <<file, interrupts, clarified>>

Start ==
  \E g \in Goals, a \in Audiences, n \in Niches, t \in Tones, c \in Ctas :
    Invoke([goal |-> g, audience |-> a, tone |-> t, cta |-> c, niche |-> n])

\* the run key built from the goal and the audience
Load_KeyOfAudience ==
  /\ pc = "load"
  /\ ~load_raises(file)
  /\ memory' = load_memory(file)
  /\ start' = Lengths(load_memory(file))
  /\ run_key' = RunKey(inp.goal \o inp.audience)
  /\ pc' = "guard"
  /\ UNCHANGED <<file, agent_status, inp, outputs, i, args, result, exc, runs, interrupts,
                 calls, clarified>>

\* lines 132-135: memory = load_memory(); run_key = ...
Load ==
  /\ pc = "load"
  /\ ~load_raises(file)
  /\ memory' = load_memory(file)
  /\ start' = Lengths(load_memory(file))
  /\ run_key' = RunKey(inp.goal)
  /\ pc' = "guard"
  /\ UNCHANGED <<file, agent_status, inp, outputs, i, args, result, exc, runs, interrupts,
                 calls, clarified>>

\* line 132 raises: the exception leaves run_system
LoadFail ==
  /\ pc = "load"
  /\ load_raises(file)
  /\ exc' = "JSONDecodeError"
  /\ pc' = "raised"
  /\ UNCHANGED <<file, agent_status, inp, memory, run_key, outputs, i, args, result, runs,
                 interrupts, start, calls, clarified>>

\* the goal guardrail without its return
ClarifyGoal_NoReturn ==
  /\ pc = "guard"
  /\ strip(inp.goal) = ""
  /\ LET res == tool_clarify("What is the content goal?")
         mem == log_event(memory, ClarifyEntry("clarify_goal", res))
     IN /\ result' = res
        /\ memory' = mem
        /\ file' = json_dump(mem)
  /\ calls' = Append(calls, "clarify")
  /\ i' = 1
  /\ pc' = "step"
  /\ UNCHANGED <<agent_status, inp, run_key, outputs, args, exc, runs, interrupts, start,
                 clarified>>

\* lines 146-157: the goal guardrail
ClarifyGoal ==
  /\ pc = "guard"
  /\ strip(inp.goal) = ""
  /\ LET res == tool_clarify("What is the content goal?")
         mem == log_event(memory, ClarifyEntry("clarify_goal", res))
     IN /\ result' = res
        /\ memory' = mem
        /\ file' = json_dump(mem)
  /\ calls' = Append(calls, "clarify")
  /\ pc' = "returned"
  /\ UNCHANGED <<agent_status, inp, run_key, outputs, i, args, exc, runs, interrupts, start,
                 clarified>>

\* line 160 and the entry into the loop
BeginWorkflow ==
  /\ pc = "guard"
  /\ strip(inp.goal) # ""
  /\ outputs' = EmptyDict
  /\ i' = 1
  /\ pc' = "step"
  /\ UNCHANGED <<file, agent_status, inp, memory, run_key, args, result, exc, runs,
                 interrupts, start, calls, clarified>>

AtStep == pc = "step" /\ i \in 1..NSteps

\* the skipped topics step putting its topics back into outputs
Skip_RestoresTopics ==
  /\ AtStep
  /\ should_skip(workflow[i].id, memory, run_key)
  /\ LET mem == log_event(memory, SkippedEntry(workflow[i]))
     IN /\ memory' = mem
        /\ file' = json_dump(mem)
  /\ outputs' = IF workflow[i].id = "topics"
                THEN Put(outputs, "topics",
                         tool_generate_topics(inp.goal, inp.audience, inp.tone))
                ELSE outputs
  /\ i' = i + 1
  /\ UNCHANGED <<agent_status, pc, inp, run_key, args, result, exc, runs, interrupts,
                 start, calls, clarified>>

\* lines 166-174
Skip ==
  /\ AtStep
  /\ should_skip(workflow[i].id, memory, run_key)
  /\ LET mem == log_event(memory, SkippedEntry(workflow[i]))
     IN /\ memory' = mem
        /\ file' = json_dump(mem)
  /\ i' = i + 1
  /\ UNCHANGED <<agent_status, pc, inp, run_key, outputs, args, result, exc, runs, interrupts,
                 start, calls, clarified>>

\* the clarify path marking the step done
ClarifyStep_MarksDone ==
  /\ AtStep
  /\ ~should_skip(workflow[i].id, memory, run_key)
  /\ NeedsTopics(workflow[i].tool)
  /\ "topics" \notin DOMAIN outputs
  /\ LET res == tool_clarify(ClarifyQuestion(workflow[i].tool))
         mem == mark_done(workflow[i].id,
                          log_event(memory, ClarifyEntry(workflow[i].id, res)), run_key)
     IN /\ result' = res
        /\ memory' = mem
        /\ file' = json_dump(mem)
  /\ calls' = Append(calls, "clarify")
  /\ clarified' = clarified \cup {completed_key(workflow[i].id, run_key)}
  /\ i' = i + 1
  /\ UNCHANGED <<agent_status, pc, inp, run_key, outputs, args, exc, runs, interrupts, start>>

\* lines 182-192 and 202-212
ClarifyStep ==
  /\ AtStep
  /\ ~should_skip(workflow[i].id, memory, run_key)
  /\ NeedsTopics(workflow[i].tool)
  /\ "topics" \notin DOMAIN outputs
  /\ LET res == tool_clarify(ClarifyQuestion(workflow[i].tool))
         mem == log_event(memory, ClarifyEntry(workflow[i].id, res))
     IN /\ result' = res
        /\ memory' = mem
        /\ file' = json_dump(mem)
  /\ calls' = Append(calls, "clarify")
  /\ clarified' = clarified \cup {completed_key(workflow[i].id, run_key)}
  /\ i' = i + 1
  /\ UNCHANGED <<agent_status, pc, inp, run_key, outputs, args, exc, runs, interrupts, start>>

\* the step gets as far as line 219
Resolves ==
  /\ AtStep
  /\ ~should_skip(workflow[i].id, memory, run_key)
  /\ NeedsTopics(workflow[i].tool) => "topics" \in DOMAIN outputs

\* lines 177-222: build args, call the tool, keep its result in outputs
Execute ==
  /\ Resolves
  /\ LET a == BuildArgs(workflow[i], inp, outputs)
     IN /\ ~ToolRaises(workflow[i].tool, a)
        /\ args' = a
        /\ result' = CallTool(workflow[i].tool, a)
        /\ outputs' = Put(outputs, workflow[i].id, result')
  /\ calls' = Append(calls, workflow[i].tool)
  /\ pc' = "asset"
  /\ UNCHANGED <<file, agent_status, inp, memory, run_key, i, exc, runs, interrupts, start,
                 clarified>>

\* line 219 raises: nothing in run_system catches it
ToolError ==
  /\ Resolves
  /\ LET a == BuildArgs(workflow[i], inp, outputs)
     IN /\ ToolRaises(workflow[i].tool, a)
        /\ args' = a
  /\ calls' = Append(calls, workflow[i].tool)
  /\ exc' = "AttributeError"
  /\ pc' = "raised"
  /\ UNCHANGED <<file, agent_status, inp, memory, run_key, outputs, i, result, runs,
                 interrupts, start, clarified>>

\* the completion key appended together with the asset
AppendAsset_MarksDone ==
  /\ pc = "asset"
  /\ memory' = mark_done(workflow[i].id,
                         Append_(memory, "content_library", Asset(inp.goal, workflow[i], result)),
                         run_key)
  /\ pc' = "log"
  /\ UNCHANGED <<file, agent_status, inp, run_key, outputs, i, args, result, exc, runs,
                 interrupts, start, calls, clarified>>

\* lines 225-231: the asset goes into memory["content_library"]
AppendAsset ==
  /\ pc = "asset"
  /\ memory' = Append_(memory, "content_library", Asset(inp.goal, workflow[i], result))
  /\ pc' = "log"
  /\ UNCHANGED <<file, agent_status, inp, run_key, outputs, i, args, result, exc, runs,
                 interrupts, start, calls, clarified>>

\* the completion key saved where the "completed" entry should be
LogCompleted_KeyFirst ==
  /\ pc = "log"
  /\ LET mem == mark_done(workflow[i].id, memory, run_key)
     IN /\ memory' = mem
        /\ file' = json_dump(mem)
  /\ pc' = "mark"
  /\ UNCHANGED <<agent_status, inp, run_key, outputs, i, args, result, exc, runs, interrupts,
                 start, calls, clarified>>

\* lines 233-240
LogCompleted ==
  /\ pc = "log"
  /\ LET mem == log_event(memory, CompletedEntry(workflow[i], args, result))
     IN /\ memory' = mem
        /\ file' = json_dump(mem)
  /\ pc' = "mark"
  /\ UNCHANGED <<agent_status, inp, run_key, outputs, i, args, result, exc, runs, interrupts,
                 start, calls, clarified>>

\* the completion key appended twice
MarkDone_Twice ==
  /\ pc = "mark"
  /\ LET mem == mark_done(workflow[i].id, mark_done(workflow[i].id, memory, run_key), run_key)
     IN /\ memory' = mem
        /\ file' = json_dump(mem)
  /\ i' = i + 1
  /\ pc' = "step"
  /\ UNCHANGED <<agent_status, inp, run_key, outputs, args, result, exc, runs, interrupts,
                 start, calls, clarified>>

\* line 242
MarkDone ==
  /\ pc = "mark"
  /\ LET mem == mark_done(workflow[i].id, memory, run_key)
     IN /\ memory' = mem
        /\ file' = json_dump(mem)
  /\ i' = i + 1
  /\ pc' = "step"
  /\ UNCHANGED <<agent_status, inp, run_key, outputs, args, result, exc, runs, interrupts,
                 start, calls, clarified>>

\* lines 244-269: the loop is over
Finish ==
  /\ pc = "step"
  /\ i = NSteps + 1
  /\ agent_status' = "complete"
  /\ pc' = "returned"
  /\ UNCHANGED <<file, inp, memory, run_key, outputs, i, args, result, exc, runs, interrupts,
                 start, calls, clarified>>

\* The process is killed between two statements of the loop: every local is
\* lost, the file keeps what the last save wrote, and a new process starts
\* with the module-level agent["status"] = "idle".
Interrupt ==
  /\ InRun
  /\ interrupts < MaxInterrupts
  /\ interrupts' = interrupts + 1
  /\ agent_status' = "idle"
  /\ pc' = "idle"
  /\ inp' = NoInput
  /\ memory' = EmptyDict
  /\ run_key' = ""
  /\ outputs' = EmptyDict
  /\ i' = 0
  /\ args' = EmptyDict
  /\ result' = ""
  /\ exc' = ""
  /\ start' = NoLengths
  /\ calls' = <<>>
  /\ UNCHANGED <<file, runs, clarified>>

Next ==
  \/ Start
  \/ Load
  \/ LoadFail
  \/ ClarifyGoal
  \/ BeginWorkflow
  \/ Skip
  \/ ClarifyStep
  \/ Execute
  \/ AppendAsset
  \/ LogCompleted
  \/ MarkDone
  \/ Finish
  \/ Interrupt

Spec == Init /\ [][Next]_vars

\* The same program called with a niche that is not a string.
StartNoNiche ==
  \E g \in Goals, a \in Audiences, t \in Tones, c \in Ctas :
    Invoke([goal |-> g, audience |-> a, tone |-> t, cta |-> c, niche |-> None])

NextAnyNiche ==
  \/ Start
  \/ StartNoNiche
  \/ Load
  \/ LoadFail
  \/ ClarifyGoal
  \/ BeginWorkflow
  \/ Skip
  \/ ClarifyStep
  \/ Execute
  \/ ToolError
  \/ AppendAsset
  \/ LogCompleted
  \/ MarkDone
  \/ Finish

SpecAnyNiche == Init /\ [][NextAnyNiche]_vars

\* The same program called with another audience, niche, tone and call to
\* action, or with no niche; no call is interrupted.
OtherInput ==
  [audience |-> "founders", tone |-> "playful", cta |-> "Follow for more.",
   niche |-> "real estate"]

StartOther ==
  \E g \in Goals :
    Invoke([goal |-> g, audience |-> OtherInput.audience, tone |-> OtherInput.tone,
            cta |-> OtherInput.cta, niche |-> OtherInput.niche])

NextAnyInput ==
  \/ Start
  \/ StartOther
  \/ StartNoNiche
  \/ Load
  \/ LoadFail
  \/ ClarifyGoal
  \/ BeginWorkflow
  \/ Skip
  \/ ClarifyStep
  \/ Execute
  \/ ToolError
  \/ AppendAsset
  \/ LogCompleted
  \/ MarkDone
  \/ Finish

SpecAnyInput == Init /\ [][NextAnyInput]_vars

\* The same program started on a well-formed file written by something else:
\* one that has none of the three fields and a field of its own, and one
\* that has completed_tasks only, beside a field of its own.
Foreign == json_dump(Put(EmptyDict, "schema", "v1"))
ForeignPartial ==
  json_dump(Put(Put(EmptyDict, "schema", "v1"), "completed_tasks", <<"run:a:topics">>))
ForeignFiles == {Foreign, ForeignPartial}

InitForeign ==
  /\ file \in ForeignFiles
  /\ agent_status = "idle"
  /\ pc = "idle"
  /\ inp = NoInput
  /\ memory = EmptyDict
  /\ run_key = ""
  /\ outputs = EmptyDict
  /\ i = 0
  /\ args = EmptyDict
  /\ result = ""
  /\ exc = ""
  /\ runs = 0
  /\ interrupts = 0
  /\ start = NoLengths
  /\ calls = <<>>
  /\ clarified = {}

NextForeign ==
  \/ Start
  \/ Load
  \/ ClarifyGoal
  \/ BeginWorkflow
  \/ Skip
  \/ ClarifyStep
  \/ Execute
  \/ AppendAsset
  \/ LogCompleted
  \/ MarkDone
  \/ Finish

SpecForeign == InitForeign /\ [][NextForeign]_vars

TypeOK ==
  /\ pc \in {"idle", "load", "guard", "step", "asset", "log", "mark", "returned", "raised"}
  /\ runs \in 0..MaxRuns
  /\ interrupts \in 0..MaxInterrupts
  /\ i \in 0..(NSteps + 1)
  /\ Loaded => KnownFields \subseteq DOMAIN memory

\* ------------------------------------------------------ what a run has done
\* what memory held when the run loaded it, and what the run has appended
Added(field) == Len(memory[field]) - start[field]
\* the k-th entry the run appended to work_log, to content_library
Entry(k) == memory["work_log"][start["work_log"] + k]
NewAsset(k) == memory["content_library"][start["content_library"] + k]

NonBlank(g) == strip(g) # ""
\* equal up to letter case and leading/trailing whitespace
SameGoal(g, h) == strip(lower(g)) = strip(lower(h))
StoreIsMemory == file = json_dump(memory)
\* the run loaded a store with nothing in it
FreshStart == start = NoLengths
\* the steps whose arguments come from outputs["topics"]
Dependents == {k \in 1..NSteps : NeedsTopics(workflow[k].tool)}
\* the completion key of step k was in completed_tasks when the run loaded it
DoneBefore(k) ==
  \E d \in 1..start["completed_tasks"] :
    memory["completed_tasks"][d] = completed_key(workflow[k].id, run_key)

\* ---------------------------------------------------------------------- C1
\* the store the run loaded is the one a single run on a fresh store leaves:
\* six "completed" entries, six keys and six Assets of one goal
AfterFreshRun(g) ==
  /\ start["work_log"] = NSteps /\ start["content_library"] = NSteps
  /\ start["completed_tasks"] = NSteps
  /\ \A k \in 1..NSteps :
       /\ memory["work_log"][k].status = "completed"
       /\ memory["work_log"][k].task = workflow[k].id
       /\ memory["content_library"][k].goal = g
       /\ memory["content_library"][k].asset_type = workflow[k].id

SecondRun ==
  /\ Loaded
  /\ \E g \in Goals : AfterFreshRun(g) /\ NonBlank(g) /\ SameGoal(g, inp.goal)

\* C1: a run that follows a run on a fresh store, with a goal equal up to
\* case and surrounding whitespace, invokes no tool, appends no Asset and no
\* completion key, logs only "skipped" entries in workflow order, and has
\* logged all six when it returns.
C1_IdempotentSkip ==
  SecondRun =>
    /\ calls = <<>>
    /\ Added("content_library") = 0
    /\ Len(memory["completed_tasks"]) = start["completed_tasks"]
    /\ Added("work_log") <= NSteps
    /\ \A k \in 1..Added("work_log") : Entry(k) = SkippedEntry(workflow[k])
    /\ pc = "returned" => Added("work_log") = NSteps /\ StoreIsMemory

\* the second goal differs from the first in case and whitespace
W_C1 ==
  /\ SecondRun /\ pc = "returned" /\ Added("work_log") = NSteps
  /\ inp.goal # memory["content_library"][1].goal

\* ---------------------------------------------------------------------- C2
KeysKept ==
  \A k \in 1..Len(Stored(file, "completed_tasks")) :
    InList(Stored(file, "completed_tasks")[k], Stored(file', "completed_tasks"))

SkipsWhatIsDone ==
  (Loaded /\ NonBlank(inp.goal)) =>
    /\ \A k \in 1..Added("work_log") :
         /\ k <= NSteps
         /\ Entry(k).task = workflow[k].id
         /\ DoneBefore(k) => Entry(k).status = "skipped"
    /\ pc \in {"asset", "log", "mark"} => ~DoneBefore(i)

\* C2: a completion key once stored stays stored through every later step
\* of every run, and a run whose run key it carries logs "skipped" for that
\* step and never executes it.
C2_PermanenceOfDone == [][KeysKept]_vars /\ []SkipsWhatIsDone

\* a third call skips a step that stayed done across a run with another goal
W_C2 ==
  /\ pc = "returned" /\ runs = 3 /\ NonBlank(inp.goal)
  /\ Added("work_log") = NSteps /\ DoneBefore(1) /\ Entry(1).status = "skipped"
  /\ start["content_library"] = 2 * NSteps
  /\ SameGoal(memory["content_library"][1].goal, inp.goal)
  /\ ~SameGoal(memory["content_library"][NSteps + 1].goal, inp.goal)

\* ---------------------------------------------------------------------- C3
FreshRunReturned == pc = "returned" /\ NonBlank(inp.goal) /\ FreshStart

ScheduleOfTopics ==
  /\ "schedule" \in DOMAIN outputs /\ "topics" \in DOMAIN outputs
  /\ Len(outputs["schedule"]) = 5
  /\ \A k \in 1..5 :
       /\ outputs["schedule"][k].day = <<"Mon", "Tue", "Wed", "Thu", "Fri">>[k]
       /\ InList(outputs["schedule"][k].topic, outputs["topics"])

SixCompleted ==
  /\ Added("work_log") = 6
  /\ \A k \in 1..6 :
       /\ Entry(k).task = <<"topics", "post_1", "post_2", "post_3", "hashtags", "schedule">>[k]
       /\ Entry(k).status = "completed"

\* C3 as stated: five completion keys and five Assets after a run on a fresh store
C3_FreshRunFive ==
  FreshRunReturned =>
    /\ SixCompleted
    /\ Len(memory["completed_tasks"]) = 5
    /\ Len(memory["content_library"]) = 5
    /\ ScheduleOfTopics

\* C3: a run with a non-blank goal on a store with nothing in it logs six
\* "completed" entries in workflow order, adds six completion keys and six
\* Assets (one per step), and its schedule pairs Mon..Fri with generated
\* topics.
C3_FreshRunSix ==
  FreshRunReturned =>
    /\ SixCompleted
    /\ Len(memory["completed_tasks"]) = 6
    /\ Len(memory["content_library"]) = 6
    /\ \A k \in 1..6 :
         /\ memory["completed_tasks"][k] = completed_key(workflow[k].id, run_key)
         /\ memory["content_library"][k].asset_type = workflow[k].id
    /\ ScheduleOfTopics
    /\ StoreIsMemory

W_C3 == FreshRunReturned /\ Added("work_log") = 6 /\ "schedule" \in DOMAIN outputs

\* ---------------------------------------------------------------------- C4
\* the topics step is behind us and left nothing in outputs
TopicsNotCompleted ==
  /\ Loaded /\ NonBlank(inp.goal) /\ Added("work_log") >= 1
  /\ "topics" \notin DOMAIN outputs

NoDependentAsset ==
  \A a \in 1..Added("content_library") :
    \A k \in Dependents : NewAsset(a).asset_type # workflow[k].id

\* C4 as stated: every dependent step logs "clarify"
C4_DependentsClarify ==
  TopicsNotCompleted =>
    /\ \A k \in Dependents : k <= Added("work_log") => Entry(k).status = "clarify"
    /\ NoDependentAsset

\* C4: when topics did not complete in a run, a dependent step that is
\* already marked done for the run key logs "skipped", every other dependent
\* step logs "clarify", and none of them appends an Asset.
C4_DependentsClarifyOrSkip ==
  TopicsNotCompleted =>
    /\ \A k \in Dependents :
         k <= Added("work_log") =>
           Entry(k).status = (IF DoneBefore(k) THEN "skipped" ELSE "clarify")
    /\ NoDependentAsset

\* topics skipped, all four dependents clarified, the tags step completed
W_C4 ==
  /\ TopicsNotCompleted /\ pc = "returned" /\ Added("work_log") = NSteps
  /\ \A k \in Dependents : Entry(k).status = "clarify"
  /\ Added("content_library") = 1

\* ---------------------------------------------------------------------- C5
\* C5: a run with an empty or blank goal whose store loads appends exactly
\* one "clarify" entry, appends no Asset and no completion key, never
\* enters the workflow, invokes only the clarify tool, and returns.
C5_AbortAtEntry ==
  (Loaded /\ ~NonBlank(inp.goal)) =>
    /\ pc \in {"guard", "returned"}
    /\ i = 0
    /\ Added("content_library") = 0
    /\ Added("completed_tasks") = 0
    /\ pc = "guard" => Added("work_log") = 0 /\ calls = <<>>
    /\ pc = "returned" =>
         /\ Added("work_log") = 1
         /\ Entry(1).status = "clarify"
         /\ calls = <<"clarify">>
         /\ StoreIsMemory

\* a blank goal on a store that already holds completed work
W_C5 ==
  /\ pc = "returned" /\ inp.goal = " " /\ Added("work_log") = 1
  /\ start["content_library"] >= 1 /\ start["completed_tasks"] >= 1

\* the empty goal
W_C5_Empty == pc = "returned" /\ inp.goal = "" /\ Added("work_log") = 1

\* ---------------------------------------------------------------------- C6
ClarifiedNow(k) == k <= Added("work_log") /\ Entry(k).status = "clarify"

\* the clarified step left no key and no Asset, and the loop went on
ClarifyLeavesNoTrace ==
  (Loaded /\ NonBlank(inp.goal)) =>
    \A k \in Dependents :
      ClarifiedNow(k) =>
        /\ ~InList(completed_key(workflow[k].id, run_key), memory["completed_tasks"])
        /\ \A a \in 1..Added("content_library") : NewAsset(a).asset_type # workflow[k].id
        /\ Entry(k) = ClarifyEntry(workflow[k].id, tool_clarify(ClarifyQuestion(workflow[k].tool)))
        /\ i > k
        /\ pc = "returned" => Added("work_log") = NSteps

\* a step that was clarified under a run key is not skipped under it later
ClarifiedIsRetried ==
  /\ \A key \in clarified : ~InList(key, Stored(file, "completed_tasks"))
  /\ (Loaded /\ NonBlank(inp.goal)) =>
       \A k \in 1..NSteps :
         (k <= Added("work_log") /\ completed_key(workflow[k].id, run_key) \in clarified)
           => Entry(k).status # "skipped"

\* C6: a draft or schedule step that takes the clarify path appends one
\* "clarify" entry, no completion key and no Asset, the run goes on to the
\* next step, and later runs with the same goal do not skip the step.
C6_ClarifyNotMarkedDone == ClarifyLeavesNoTrace /\ ClarifiedIsRetried

\* Every Asset in the store has the goal of this run up to case and
\* whitespace, so the earlier post_1 "clarify" entry is of a run with this
\* run key; this run clarifies post_1 again.
W_C6 ==
  /\ pc = "returned" /\ NonBlank(inp.goal) /\ Added("work_log") = NSteps
  /\ Entry(2).status = "clarify"
  /\ \A a \in 1..Len(memory["content_library"]) :
       SameGoal(memory["content_library"][a].goal, inp.goal)
  /\ \E e \in 1..start["work_log"] :
       memory["work_log"][e].task = "post_1" /\ memory["work_log"][e].status = "clarify"

\* ---------------------------------------------------------------------- C7
GrowsAtEnd(field) ==
  /\ IsPrefix(Stored(file, field), Stored(file', field))
  /\ (Loaded /\ Loaded' /\ runs' = runs) => IsPrefix(memory[field], memory'[field])

\* C7: every step of every run leaves the stored and the in-memory work_log
\* and content_library with their previous value as a prefix.
C7_AppendOnly == [][GrowsAtEnd("work_log") /\ GrowsAtEnd("content_library")]_vars

W_C7 ==
  /\ Loaded /\ runs >= 2
  /\ start["work_log"] >= NSteps /\ Added("work_log") >= 1
  /\ start["content_library"] >= 1 /\ Added("content_library") >= 1

\* ---------------------------------------------------------------------- C8
\* C8: whenever the run is between two operations, the stored snapshot has
\* every entry of the three in-memory lists.
C8_SaveAfterEveryMutation ==
  Loaded => \A f \in KnownFields : Stored(file, f) = memory[f]

\* ---------------------------------------------------------------------- C9
ToolFailed ==
  /\ i \in 1..NSteps /\ calls # <<>>
  /\ calls[Len(calls)] = workflow[i].tool
  /\ ToolRaises(workflow[i].tool, args)

\* C9: after the tool of a step has failed the run has not crashed: it has
\* logged a "clarify" entry for the step and gone on.
C9_ToolFailureDegrades ==
  ToolFailed =>
    /\ pc # "raised"
    /\ Added("work_log") > 0
    /\ Entry(Added("work_log")).status = "clarify"

\* --------------------------------------------------------------------- C10
Unreadable == file.exists /\ ~file.wellformed

\* C10: while the backing file is not well-formed no run gets past the
\* load: it raises out of run_system with nothing loaded, no tool invoked
\* and the file as it was.
C10_StorageErrorFatal ==
  /\ [][Unreadable => file' = file]_vars
  /\ [](Unreadable =>
          /\ pc \in {"idle", "load", "raised"}
          /\ pc = "raised" => exc = "JSONDecodeError"
          /\ memory = EmptyDict
          /\ calls = <<>>)

W_C10 == pc = "raised" /\ exc = "JSONDecodeError" /\ runs >= 2 /\ file = Malformed

\* --------------------------------------------------------------------- C11
\* the k-th completion key and the k-th Asset of the loaded store are of the
\* same completed step when no call was interrupted
KeyOfEarlierRun(k) == memory["completed_tasks"][k]
GoalOfEarlierRun(k) == memory["content_library"][k].goal
StepOfEarlierRun(k) == memory["content_library"][k].asset_type

\* C11: the run key is the trimmed lower-case goal behind "run:", whatever
\* the audience, niche, tone and call to action, and the completion key an
\* earlier call stored for a step under a goal equal up to letter case and
\* leading/trailing whitespace is the completion key this call computes for
\* that step.
C11_RunKeyOfGoalAlone ==
  Loaded =>
    /\ \A g \in Goals : SameGoal(g, inp.goal) => run_key = RunKey(g)
    /\ start["completed_tasks"] = start["content_library"]
    /\ \A k \in 1..start["completed_tasks"] :
         SameGoal(GoalOfEarlierRun(k), inp.goal) =>
           KeyOfEarlierRun(k) = completed_key(StepOfEarlierRun(k), run_key)

\* the earlier call had another spelling of the goal and another audience,
\* tone, call to action and niche
W_C11 ==
  /\ Loaded /\ NonBlank(inp.goal) /\ start["completed_tasks"] = NSteps
  /\ SameGoal(GoalOfEarlierRun(1), inp.goal) /\ GoalOfEarlierRun(1) # inp.goal
  /\ memory["work_log"][1].args.audience # inp.audience
  /\ memory["work_log"][1].args.tone # inp.tone
  /\ memory["work_log"][3].args.cta # inp.cta
  /\ memory["work_log"][5].args.niche # inp.niche
  /\ KeyOfEarlierRun(1) = completed_key("topics", run_key)

\* --------------------------------------------------------------------- C12
\* the entry the run appended last carries a preview of the local result
LastLogged == Entry(Added("work_log"))
PreviewJustStored ==
  /\ Loaded /\ pc \in {"mark", "step", "returned"}
  /\ Added("work_log") >= 1
  /\ LastLogged.status \in {"completed", "clarify"}

\* the text the preview was made of: str(result)
PreviewedText ==
  IF LastLogged.status = "completed" THEN StrResult(LastLogged.tool, result) ELSE result

\* C12: the preview in a log entry is the text itself when the text has at
\* most 260 characters, and otherwise its first 260 characters followed by
\* "...(truncated)".
C12_TruncationLaw ==
  PreviewJustStored =>
    IF Len(PreviewedText) > PreviewLimit
    THEN /\ Len(LastLogged.output) = PreviewLimit + Len("...(truncated)")
         /\ SubSeq(LastLogged.output, 1, PreviewLimit) = SubSeq(PreviewedText, 1, PreviewLimit)
         /\ SubSeq(LastLogged.output, PreviewLimit + 1, Len(LastLogged.output))
              = "...(truncated)"
    ELSE LastLogged.output = PreviewedText

\* a run whose topics preview is the whole text and whose schedule preview
\* is cut
W_C12 ==
  /\ PreviewJustStored /\ pc = "returned" /\ Added("work_log") = NSteps
  /\ LastLogged.task = "schedule" /\ Len(PreviewedText) > PreviewLimit
  /\ Entry(1).status = "completed"
  /\ Entry(1).output = StrResult("generate_topics", outputs["topics"])
  /\ Len(Entry(1).output) <= PreviewLimit

\* --------------------------------------------------------------------- C13
\* the fields of a record other than the three the program knows
Unknown(d) == [x \in (DOMAIN d) \ KnownFields |-> d[x]]

\* load_memory has just returned and nothing has been saved since
JustLoaded == pc = "guard"

LoadFillsAbsentOnly ==
  JustLoaded =>
    /\ \A f \in KnownFields :
         memory[f] = (IF f \in DOMAIN file.data THEN file.data[f] ELSE <<>>)
    /\ Unknown(memory) = Unknown(file.data)

UnknownKept == Unknown(file'.data) = Unknown(file.data)

\* C13: load_memory returns each of completed_tasks, work_log and
\* content_library as stored when the stored record has it and as an empty
\* list when it has not, and every other top-level field of the stored
\* record is in the loaded record and in every record saved afterwards,
\* with its value unchanged.
C13_UnknownFieldsKept == []LoadFillsAbsentOnly /\ [][UnknownKept]_vars

\* a second call has saved a record that started without work_log and
\* content_library and still has the field it does not know
W_C13 ==
  /\ pc = "returned" /\ runs >= 2 /\ NonBlank(inp.goal)
  /\ Added("work_log") = NSteps /\ start["work_log"] >= 1
  /\ StoreIsMemory
  /\ Unknown(file.data) = Put(EmptyDict, "schema", "v1")
  /\ memory["completed_tasks"][1] = "run:a:topics"

\* --------------------------------------------------------------------- C14
\* what the run has done so far: tools invoked, results kept in outputs,
\* Assets appended, "completed" entries appended, completion keys appended
ToolCalls == Cardinality({c \in 1..Len(calls) : calls[c] # "clarify"})
ResultsKept == Cardinality(DOMAIN outputs)
CompletedEntries == {k \in 1..Added("work_log") : Entry(k).status = "completed"}
NewKey(j) == memory["completed_tasks"][start["completed_tasks"] + j]

\* how far the current step is: its tool has returned (asset), its Asset is
\* appended (log), its entry is appended (mark), its key is appended
StepsWith(stage) ==
  IF pc \in stage THEN ToolCalls ELSE ToolCalls - 1

\* C14: a step whose arguments resolve has its tool invoked once, then its
\* result stored in outputs under the step id, then one Asset appended,
\* then one "completed" entry appended, then its completion key appended;
\* every key the run has appended has its Asset and its "completed" entry.
C14_CompletedStepOrder ==
  Loaded =>
    /\ ResultsKept = ToolCalls
    /\ Added("content_library") = StepsWith({"guard", "step", "returned", "mark", "log"})
    /\ Cardinality(CompletedEntries) = StepsWith({"guard", "step", "returned", "mark"})
    /\ Added("completed_tasks") = StepsWith({"guard", "step", "returned"})
    /\ pc \in {"asset", "log", "mark"} =>
         /\ calls[Len(calls)] = workflow[i].tool
         /\ workflow[i].id \in DOMAIN outputs
         /\ outputs[workflow[i].id] = result
         /\ ~InList(completed_key(workflow[i].id, run_key), memory["completed_tasks"])
    /\ \A j \in 1..Added("content_library") :
         /\ NewAsset(j).asset_type \in DOMAIN outputs
         /\ NewAsset(j).data = outputs[NewAsset(j).asset_type]
         /\ \A h \in 1..(j - 1) : NewAsset(h).asset_type # NewAsset(j).asset_type
    /\ \A j \in 1..Added("completed_tasks") :
         /\ NewKey(j) = completed_key(NewAsset(j).asset_type, run_key)
         /\ \E k \in CompletedEntries : Entry(k).task = NewAsset(j).asset_type

\* the last step has its Asset and its entry and not yet its key
W_C14 ==
  /\ pc = "mark" /\ i = NSteps /\ ToolCalls = NSteps
  /\ Added("content_library") = NSteps /\ Cardinality(CompletedEntries) = NSteps
  /\ Added("completed_tasks") = NSteps - 1

\* --------------------------------------------------------------------- C15
\* a call with a non-blank goal that got past load_memory has ended
RunEnded ==
  /\ pc \in {"returned", "raised"} /\ exc # "JSONDecodeError"
  /\ NonBlank(inp.goal)

\* C15: a run with a non-blank goal has, when it ends, appended six log
\* entries, one per workflow step in workflow order, each with status
\* completed, clarify or skipped.
C15_OneEntryPerStep ==
  RunEnded =>
    /\ Added("work_log") = NSteps
    /\ \A k \in 1..NSteps :
         /\ Entry(k).task = workflow[k].id
         /\ Entry(k).status \in {"completed", "clarify", "skipped"}

\* --------------------------------------------------------------------- C16
\* the run keys of the non-blank goals
RunKeys == {RunKey(g) : g \in {h \in Goals : NonBlank(h)}}

\* in a stored record the topics step is done for run key rk and step d is not
Stuck(f, rk, d) ==
  /\ InList(completed_key("topics", rk), Stored(f, "completed_tasks"))
  /\ ~InList(completed_key(workflow[d].id, rk), Stored(f, "completed_tasks"))

\* a run with run key rk is under way that found the topics step not done
FirstRunOf(rk) == Loaded /\ run_key = rk /\ ~DoneBefore(1)

StuckStays ==
  \/ file' = file
  \/ \A rk \in RunKeys : \A d \in Dependents :
       (Stuck(file, rk, d) /\ ~FirstRunOf(rk)) => Stuck(file', rk, d)

ClarifiesStuck ==
  (Loaded /\ start["completed_tasks"] > 0 /\ NonBlank(inp.goal) /\ DoneBefore(1)) =>
    \A d \in Dependents :
      ~DoneBefore(d) =>
        /\ d <= Added("work_log") => Entry(d).status = "clarify"
        /\ ~InList(completed_key(workflow[d].id, run_key), memory["completed_tasks"])
        /\ \A a \in 1..Added("content_library") : NewAsset(a).asset_type # workflow[d].id
        /\ pc \in {"asset", "log", "mark"} => i # d

\* C16: a run that loads a store in which the topics step is done for its
\* run key and a draft or schedule step is not logs "clarify" for that
\* step, appends no Asset and no completion key for it, and leaves the
\* store in the same condition; no later step of any run, unless of a run
\* that found the topics step not done, takes the store out of it.
C16_ClarifiedNeverRecovers == []ClarifiesStuck /\ [][StuckStays]_vars

\* a third call clarifies the four dependent steps that an earlier call with
\* the same run key had already clarified
W_C16 ==
  /\ pc = "returned" /\ runs = 3 /\ NonBlank(inp.goal) /\ DoneBefore(1)
  /\ Added("work_log") = NSteps
  /\ \A d \in Dependents :
       /\ Entry(d).status = "clarify"
       /\ completed_key(workflow[d].id, run_key) \in clarified
       /\ \E e \in 1..start["work_log"] :
            /\ memory["work_log"][e].task = workflow[d].id
            /\ memory["work_log"][e].status = "clarify"
  /\ \A a \in 1..Len(memory["content_library"]) :
       SameGoal(memory["content_library"][a].goal, inp.goal)

\* --------------------------------------------------------------------- C17
\* the three lists of the stored snapshot
StoredKeys == Stored(file, "completed_tasks")
StoredAssets == Stored(file, "content_library")
StoredLog == Stored(file, "work_log")

\* the snapshot has a "completed" entry for a step, no earlier in the log than
\* the a-th entry (a log entry is appended for every Asset and more)
LoggedCompleted(task_id, a) ==
  \E e \in a..Len(StoredLog) :
    StoredLog[e].status = "completed" /\ StoredLog[e].task = task_id

\* C17: every completion key in a stored snapshot has, in that snapshot, an
\* Asset of its step whose goal gives its run key, and a "completed" log
\* entry of its step; this holds after interrupted runs too.  (The Asset of
\* the j-th key is the j-th Asset or a later one.)
C17_KeyImpliesArtifact ==
  \A j \in 1..Len(StoredKeys) :
    \E a \in j..Len(StoredAssets) :
      /\ StoredKeys[j]
           = completed_key(StoredAssets[a].asset_type, RunKey(StoredAssets[a].goal))
      /\ LoggedCompleted(StoredAssets[a].asset_type, a)

\* after a run was killed between the save of a "completed" entry and the
\* save of its key, the snapshot has keys, and more Assets than keys
W_C17 ==
  /\ pc = "idle" /\ interrupts >= 1
  /\ Len(StoredKeys) >= 1
  /\ Len(StoredAssets) > Len(StoredKeys)
  /\ Len(StoredAssets) = Cardinality({e \in 1..Len(StoredLog) : StoredLog[e].status = "completed"})

\* --------------------------------------------------------------------- C18
\* the loaded store has an Asset of step k of a goal with the run key of
\* this run: an earlier run with this run key completed the step
CompletedUnderThisKey(k) ==
  \E a \in 1..Len(memory["content_library"]) :
    /\ memory["content_library"][a].asset_type = workflow[k].id
    /\ RunKey(memory["content_library"][a].goal) = run_key

\* C18: should_skip is true of a step only when that step was completed
\* under a goal with the run key of the run; completion keys of other run
\* keys and of other steps do not make it true.
C18_RunKeyIsolation ==
  Loaded =>
    \A k \in 1..NSteps :
      should_skip(workflow[k].id, memory, run_key) => CompletedUnderThisKey(k)

\* a run on a store that holds the six keys of another run key skips nothing
W_C18 ==
  /\ pc = "returned" /\ NonBlank(inp.goal)
  /\ start["completed_tasks"] = NSteps /\ start["content_library"] = NSteps
  /\ \A k \in 1..NSteps :
       /\ memory["content_library"][k].asset_type = workflow[k].id
       /\ ~SameGoal(memory["content_library"][k].goal, inp.goal)
       /\ Entry(k).status = "completed"
  /\ Added("completed_tasks") = NSteps

\* --------------------------------------------------------------------- C19
\* no call is under way and none was interrupted
AllRunsWhole == Ended /\ interrupts = 0

StoredCompleted == {e \in 1..Len(StoredLog) : StoredLog[e].status = "completed"}

\* C19: after any number of calls none of which was interrupted, the stored
\* completed_tasks has no key twice, and the store has as many Assets as
\* completion keys and as many "completed" log entries.
C19_OneCompletionPerKey ==
  AllRunsWhole =>
    /\ \A j \in 1..Len(StoredKeys) : \A h \in 1..(j - 1) : StoredKeys[h] # StoredKeys[j]
    /\ Len(StoredAssets) = Len(StoredKeys)
    /\ Cardinality(StoredCompleted) = Len(StoredKeys)

\* three whole calls: two goals with different run keys, and one of them again
W_C19 ==
  /\ AllRunsWhole /\ pc = "returned" /\ runs = 3 /\ NonBlank(inp.goal)
  /\ Len(StoredKeys) = 2 * NSteps
  /\ Len(StoredLog) = 3 * NSteps
  /\ Added("content_library") = 0

====
